---- MODULE Spec2Model ----
(***************************************************************************)
(* Model of the PiDog conversational loop (gpt_dog.py, openai_helper.py):  *)
(* the Main Control Loop, the Speech Worker (speak_hanlder) and the Action *)
(* Worker (action_handler), which share action_status/actions_to_be_done   *)
(* behind action_lock and speech_loaded/tts_file behind speech_lock, and   *)
(* the provider handlers' dialogue / dialogue_with_img operations.         *)
(* Every "with lock:" block is an acquire step followed by a step that     *)
(* executes the body and releases the lock.  A time.sleep is part of the   *)
(* step that precedes it.                                                  *)
(*                                                                         *)
(* The environment chooses what each external call does: the text the      *)
(* input capture yields, the provider's reply or error, the results of     *)
(* text-to-speech and sox_volume, whether action_flow.run and              *)
(* my_dog.speak_block return or raise, and whether the idle timer of the   *)
(* Action Worker has elapsed.  The LED calls (my_dog.rgb_strip.set_mode)   *)
(* and the prints take no part in the protocol and are left out.  The      *)
(* voice and keyboard branches of the input capture differ only in how the *)
(* text is obtained and are one capture step.                              *)
(***************************************************************************)
EXTENDS Integers, Sequences, FiniteSets, TLC

(***************************************************************************)
(* Bounds of the model.                                                    *)
(***************************************************************************)
\* longest action list a structured reply carries
MaxActions == 3

(***************************************************************************)
(* Program constants.                                                      *)
(***************************************************************************)
VOICE_ACTIONS == {"bark", "bark harder", "pant", "howling"}
standby_actions == {"waiting", "feet_left_right"}
Providers == {"openai", "anthropic", "openrouter", "custom"}

\* the phases of action_status
Standby == "standby"
Think == "think"
Actions == "actions"
ActionsDone == "actions_done"

\* action identifiers a reply may name; the batches are its prefixes
ActionPool == <<"sit", "bark", "wag tail", "howling">>
Batches == {SubSeq(ActionPool, 1, n) : n \in 0..MaxActions}

\* texts the input capture may yield (the empty string / False is "skip")
Inputs == {"hi"}

(***************************************************************************)
(* Python values handled by the loop: the value a handler returns.         *)
(***************************************************************************)
DictVal(ha, acts, hans, ans, bad) ==
    [t |-> "dict", hasActions |-> ha, actions |-> acts,
     hasAnswer |-> hans, answer |-> ans, malformed |-> bad, s |-> ""]
StrVal(str) ==
    [t |-> "str", hasActions |-> FALSE, actions |-> <<>>,
     hasAnswer |-> FALSE, answer |-> "", malformed |-> FALSE, s |-> str]
\* a number; s is str(value)
IntVal(str) ==
    [t |-> "int", hasActions |-> FALSE, actions |-> <<>>,
     hasAnswer |-> FALSE, answer |-> "", malformed |-> FALSE, s |-> str]
NoneVal ==
    [t |-> "none", hasActions |-> FALSE, actions |-> <<>>,
     hasAnswer |-> FALSE, answer |-> "", malformed |-> FALSE, s |-> "None"]
\* response = {}
EmptyDict == DictVal(FALSE, <<>>, FALSE, "", FALSE)

(***************************************************************************)
(* Texts a provider may reply with (assistant_msg).  k is the shape of the *)
(* text: a dict literal ("struct"), an expression that evaluates to a      *)
(* number ("expr"), prose, or the empty text.  jsonLit: the dict literal   *)
(* holds a JSON-only literal (true/false/null).  terms: the numbers an     *)
(* expression text adds up ("1+1" is <<1, 1>>).                            *)
(***************************************************************************)
StructText(raw, ha, acts, hans, ans, lit, bad) ==
    [k |-> "struct", raw |-> raw, jsonLit |-> lit,
     d |-> DictVal(ha, acts, hans, ans, bad), terms |-> <<>>]
PlainText(kind, raw) ==
    [k |-> kind, raw |-> raw, jsonLit |-> FALSE, d |-> EmptyDict,
     terms |-> <<>>]
ExprText(raw, terms) ==
    [k |-> "expr", raw |-> raw, jsonLit |-> FALSE, d |-> EmptyDict,
     terms |-> terms]

ReplyTexts ==
    {StructText("{actions,answer:''}", TRUE, b, TRUE, "", FALSE, FALSE) :
        b \in {x \in Batches : Len(x) \in {0, MaxActions}}}
    \cup {StructText("{actions,answer:'ok'}", TRUE, b, TRUE, "ok", FALSE, FALSE) :
             b \in {x \in Batches : Len(x) = MaxActions}}
    \cup {StructText("{answer:'hello'}", FALSE, <<>>, TRUE, "hello", FALSE, FALSE),
          PlainText("prose", "woof woof"),
          PlainText("empty", "")}

\* str(e) of the errors a provider call raises
ErrTimeout == "timeout"
ErrRejected == "validation failed: content"


(***************************************************************************)
(* What a provider call can do (chosen by the environment).                *)
(*   reply       the provider answers with a text                          *)
(*   error       transport/auth failure: the HTTP/client call raises       *)
(*   reject      the provider rejects the image content (HTTP error)       *)
(*   incomplete  openai only: the run ends in a status other than          *)
(*               'completed'                                               *)
(*   imgfail     the image file cannot be written or opened (no request    *)
(*               is sent)                                                  *)
(***************************************************************************)
NoText == PlainText("empty", "")
Outcome(kind, text) == [o |-> kind, text |-> text]
ReplyOutcomes == {Outcome("reply", t) : t \in ReplyTexts}
DialogueOutcomes(p) ==
    ReplyOutcomes \cup {Outcome("error", NoText)}
    \cup (IF p = "openai" THEN {Outcome("incomplete", NoText)} ELSE {})
ImgOutcomes(p) ==
    DialogueOutcomes(p) \cup {Outcome("reject", NoText), Outcome("imgfail", NoText)}

ErrText(out) == IF out.o = "reject" THEN ErrRejected ELSE ErrTimeout

(***************************************************************************)
(* eval(assistant_msg): succeeds on a Python dict literal and on any other *)
(* valid expression; raises on prose, on the empty text and on a literal   *)
(* that uses the JSON names true/false/null.                               *)
(***************************************************************************)
EvalOk(text) == (text.k = "struct" /\ ~text.jsonLit) \/ text.k = "expr"
RECURSIVE Sum(_)
Sum(terms) == IF terms = <<>> THEN 0 ELSE Head(terms) + Sum(Tail(terms))
EvalValue(text) ==
    IF text.k = "struct" THEN text.d ELSE IntVal(ToString(Sum(text.terms)))

\* try: return eval(assistant_msg)  except: return assistant_msg
ParseReply(text) == IF EvalOk(text) THEN EvalValue(text) ELSE StrVal(text.raw)

Returned(v) == [raised |-> FALSE, ret |-> v]
Raised == [raised |-> TRUE, ret |-> NoneVal]

(***************************************************************************)
(* The handlers.  AnthropicHandler, OpenRouterHandler and CustomAPIHandler *)
(* wrap the request in try/except and return str(e); OpenAIHandler has no  *)
(* try/except around its client calls.                                     *)
(***************************************************************************)
GenericDialogue(out) ==
    IF out.o = "reply" THEN Returned(ParseReply(out.text))
    ELSE Returned(StrVal(ErrText(out)))

OpenAIDialogue(out) ==
    CASE out.o = "reply" -> Returned(ParseReply(out.text))
      [] out.o = "incomplete" -> Returned(NoneVal)
      [] OTHER -> Raised

GenericDialogueWithImg(out) ==
    CASE out.o = "imgfail" -> Raised
      [] out.o = "reply" -> Returned(ParseReply(out.text))
      [] OTHER -> Returned(StrVal(ErrText(out)))

OpenAIDialogueWithImg(out) ==
    CASE out.o = "reply" -> Returned(ParseReply(out.text))
      [] out.o = "incomplete" -> Returned(NoneVal)
      [] OTHER -> Raised

dialogue(p, out) ==
    IF p = "openai" THEN OpenAIDialogue(out) ELSE GenericDialogue(out)
dialogue_with_img(p, out) ==
    IF p = "openai" THEN OpenAIDialogueWithImg(out) ELSE GenericDialogueWithImg(out)

(***************************************************************************)
(* main, "actions & TTS" (the first try block): the turn's actions and     *)
(* answer from the response.  assigned = FALSE: the block assigns neither  *)
(* local (str(response) is empty).                                         *)
(***************************************************************************)
DefaultActions == <<"stop">>
IsNotVoice(a) == a \notin VOICE_ACTIONS

\* list.remove(x): the list without the first occurrence of x
RECURSIVE Remove(_, _)
Remove(list, x) ==
    IF list = <<>> THEN <<>>
    ELSE IF Head(list) = x THEN Tail(list)
    ELSE <<Head(list)>> \o Remove(Tail(list), x)

\* for _action in _actions: if _action in VOICE_ACTIONS: actions.remove(_action)
RECURSIVE RemoveLoop(_, _)
RemoveLoop(copy, list) ==
    IF copy = <<>> THEN list
    ELSE IF Head(copy) \in VOICE_ACTIONS
         THEN RemoveLoop(Tail(copy), Remove(list, Head(copy)))
         ELSE RemoveLoop(Tail(copy), list)

\* a filter that stops after the first voice action it removed
RECURSIVE RemoveFirstVoice(_)
RemoveFirstVoice(acts) ==
    IF acts = <<>> THEN <<>>
    ELSE IF Head(acts) \in VOICE_ACTIONS THEN Tail(acts)
    ELSE <<Head(acts)>> \o RemoveFirstVoice(Tail(acts))

\* _actions = list.copy(actions) ; the loop over the copy
RemoveVoiceActions(acts) == RemoveLoop(acts, acts)

Assigned(acts, ans) == [assigned |-> TRUE, actions |-> acts, answer |-> ans]
NotAssigned == [assigned |-> FALSE, actions |-> <<>>, answer |-> ""]

DictActions(r) == IF r.hasActions THEN r.actions ELSE DefaultActions
DictAnswer(r) == IF r.hasAnswer THEN r.answer ELSE ""

ParseResponse(r) ==
    IF r.t = "dict"
    THEN IF r.malformed
         THEN Assigned(DefaultActions, "")
         ELSE IF DictAnswer(r) # ""
              THEN Assigned(RemoveVoiceActions(DictActions(r)), DictAnswer(r))
              ELSE Assigned(DictActions(r), DictAnswer(r))
    ELSE IF r.s # ""
         THEN Assigned(DefaultActions, r.s)
         ELSE NotAssigned


(***************************************************************************)
(* State.                                                                  *)
(***************************************************************************)
VARIABLES
    \* shared registers (module globals of gpt_dog.py)
    action_status,       \* 'standby' | 'think' | 'actions' | 'actions_done'
    actions_to_be_done,  \* the published batch
    action_lock,         \* holder of action_lock: "free" or a thread
    speech_loaded,       \* the speech-ready flag
    tts_file,            \* the audio file to play
    speech_lock,         \* holder of speech_lock
    \* configuration fixed before the loop starts
    provider,            \* api_config['provider']
    with_img,            \* with_img and vilib_available
    \* Main Control Loop: position and locals of main()
    mpc, result, response, actions, answer, bound, status,
    \* what the current turn did: the handler calls made (operation, text,
    \* outcome), the texts handed to text-to-speech, whether actions/answer
    \* were assigned in this turn
    calls, ttsCalls, fresh,
    \* Speech Worker: position, _isloaded
    spc, s_isloaded,
    \* Action Worker: position, _state, _actions, loop index, and the
    \* action_flow.run calls of the current iteration (action, raised)
    apc, a_state, a_actions, a_idx, ran,
    \* the cards selected before the handler is created, the messages
    \* build_api_messages made of them, and whether it has been called
    selected_character, selected_persona, selected_preset, messages, bpc,
    \* the handler's conversation (conversation_history, or the thread of
    \* the openai handler), its length when the turn began, and the text of
    \* the provider's last reply (assistant_msg)
    conversation_history, mark, assistant_msg,
    \* start-up: the command line (sys.argv), the files beside the script,
    \* the module globals the start-up code assigns, and its position
    argv, files, auto_launch_config, use_interactive, api_config,
    vilib_available, cpc

shared == <<action_status, actions_to_be_done, action_lock,
            speech_loaded, tts_file, speech_lock>>
config == <<provider, with_img>>
mainLocals == <<result, response, actions, answer, bound, status>>
turnLog == <<calls, ttsCalls, fresh>>
mainVars == <<mpc, mainLocals, turnLog>>
speakVars == <<spc, s_isloaded>>
actionVars == <<apc, a_state, a_actions, a_idx, ran>>
cardVars == <<selected_character, selected_persona, selected_preset,
              messages, bpc>>
\* the state outside the three threads of the loop
handlerVars == <<conversation_history, mark, assistant_msg>>
startVars == <<argv, files, auto_launch_config, use_interactive, api_config,
               vilib_available, cpc>>
sessionVars == <<cardVars, handlerVars, startVars>>
loopVars == <<shared, config, mainVars, speakVars, actionVars>>
vars == <<loopVars, sessionVars>>

NoFile == "None"
RawFile == "raw.wav"
VolFile == "3dB.wav"

\* the three threads at their first statement
LoopInit ==
    /\ action_status = Standby
    /\ actions_to_be_done = <<>>
    /\ action_lock = "free"
    /\ speech_loaded = FALSE
    /\ tts_file = NoFile
    /\ speech_lock = "free"
    /\ provider \in Providers
    /\ with_img \in BOOLEAN
    /\ mpc = "m_listen"
    /\ result = ""
    /\ response = EmptyDict
    /\ actions = <<>>
    /\ answer = ""
    /\ bound = FALSE
    /\ status = FALSE
    /\ calls = <<>>
    /\ ttsCalls = <<>>
    /\ fresh = FALSE
    /\ spc = "s_acq"
    /\ s_isloaded = FALSE
    /\ apc = "a_acq"
    /\ a_state = Standby
    /\ a_actions = <<>>
    /\ a_idx = 1
    /\ ran = <<>>

\* selected_character = None ; selected_persona = None ; selected_preset = None
NoCard == [none |-> TRUE]

CardsInit ==
    /\ selected_character = NoCard
    /\ selected_persona = NoCard
    /\ selected_preset = NoCard
    /\ messages = <<>>
    /\ bpc = "b_off"

\* no request has been made
HistoryInit ==
    /\ conversation_history = <<>>
    /\ mark = 0
    /\ assistant_msg = NoText

\* [has, v]: a key of a dict or an option of the command line, with its value
NoFlag == [has |-> FALSE, v |-> FALSE]
Flag(b) == [has |-> TRUE, v |-> b]
NoName == [has |-> FALSE, v |-> ""]
Name(n) == [has |-> TRUE, v |-> n]

\* load_auto_launch_config() returned None
NoAutoLaunch == [none |-> TRUE, with_img |-> NoFlag, api_config |-> NoName]

\* start-up is over: the script was started as
\* gpt_dog.py --provider <provider> [--no-img], without auto-launch
StartedInit ==
    /\ argv = [provider |-> Name(provider), config |-> FALSE,
               no_img |-> ~with_img, interactive |-> FALSE]
    /\ files = [interactive_mode |-> FALSE, auto_launch |-> NoAutoLaunch,
                config_file |-> [ok |-> TRUE, provider |-> NoName]]
    /\ auto_launch_config = NoAutoLaunch
    /\ use_interactive = FALSE
    /\ api_config = [provider |-> provider]
    /\ vilib_available = IF with_img THEN "true" ELSE "unset"
    /\ cpc = "c_loop"

Init == LoopInit /\ CardsInit /\ HistoryInit /\ StartedInit

\* main() has not been unwound by an exception: the process is running
Running == mpc # "m_crashed"

(***************************************************************************)
(* Main Control Loop.                                                      *)
(***************************************************************************)
\* top of the while loop (voice or keyboard branch): with action_lock:
MainListen ==
    /\ mpc = "m_listen"
    /\ action_lock = "free"
    /\ action_lock' = "main"
    /\ mpc' = "m_standby"
    /\ calls' = <<>>
    /\ ttsCalls' = <<>>
    /\ fresh' = FALSE
    /\ UNCHANGED <<action_status, actions_to_be_done, speech_loaded, tts_file,
                   speech_lock, config, sessionVars, mainLocals, speakVars, actionVars>>

\* action_status = 'standby'
MainSetStandby ==
    /\ mpc = "m_standby"
    /\ action_status' = Standby
    /\ action_lock' = "free"
    /\ mpc' = "m_capture"
    /\ UNCHANGED <<actions_to_be_done, speech_loaded, tts_file, speech_lock,
                   config, sessionVars, mainLocals, turnLog, speakVars, actionVars>>

\* input capture yields a text
MainCapture ==
    /\ mpc = "m_capture"
    /\ \E txt \in Inputs : result' = txt
    /\ mpc' = "m_think_acq"
    /\ UNCHANGED <<shared, config, sessionVars, response, actions, answer, bound,
                   status, turnLog, speakVars, actionVars>>

\* a loop that goes on to the request with the empty text
AfterSkipRequest == "m_think_acq"

\* if _result == False or _result == "": continue
AfterSkip == "m_listen"

\* input capture yields False or "", or the voice capture raises and the
\* loop switches to keyboard input: continue
MainCaptureSkip ==
    /\ mpc = "m_capture"
    /\ result' = ""
    /\ mpc' = AfterSkip
    /\ UNCHANGED <<shared, config, sessionVars, response, actions, answer, bound,
                   status, turnLog, speakVars, actionVars>>

\* response = {} ; with action_lock:
MainThinkAcquire ==
    /\ mpc = "m_think_acq"
    /\ action_lock = "free"
    /\ action_lock' = "main"
    /\ response' = EmptyDict
    /\ mpc' = "m_think"
    /\ UNCHANGED <<action_status, actions_to_be_done, speech_loaded, tts_file,
                   speech_lock, config, sessionVars, result, actions, answer, bound,
                   status, turnLog, speakVars, actionVars>>

\* a loop that leaves the phase at 'standby' before the request
ThinkPhaseSkipped == Standby

\* the phase main() enters before the request
ThinkPhase == Think

\* action_status = 'think'
MainSetThink ==
    /\ mpc = "m_think"
    /\ action_status' = ThinkPhase
    /\ action_lock' = "free"
    /\ mpc' = "m_request"
    /\ UNCHANGED <<actions_to_be_done, speech_loaded, tts_file, speech_lock,
                   config, sessionVars, mainLocals, turnLog, speakVars, actionVars>>

Call(op, txt, out) == [op |-> op, text |-> txt, o |-> out.o]

\* the text main() passes to dialogue() in the except branch (_result)
FallbackText(txt) == txt

\* "Process request through the appropriate API": image branch
MainRequestImg ==
    /\ mpc = "m_request"
    /\ with_img
    /\ \E out \in ImgOutcomes(provider) :
         LET r == dialogue_with_img(provider, out) IN
           /\ calls' = Append(calls, Call("dialogue_with_img", result, out))
           /\ IF r.raised
              THEN /\ mpc' = "m_fallback"
                   /\ UNCHANGED response
              ELSE /\ mpc' = "m_parse"
                   /\ response' = r.ret
    /\ UNCHANGED <<shared, config, sessionVars, result, actions, answer, bound,
                   status, ttsCalls, fresh, speakVars, actionVars>>

\* except Exception: "Fallback to text-only if image fails"
MainFallback ==
    /\ mpc = "m_fallback"
    /\ \E out \in DialogueOutcomes(provider) :
         LET r == dialogue(provider, out) IN
           /\ calls' = Append(calls, Call("dialogue", FallbackText(result), out))
           /\ IF r.raised
              THEN /\ mpc' = "m_crashed"
                   /\ UNCHANGED response
              ELSE /\ mpc' = "m_parse"
                   /\ response' = r.ret
    /\ UNCHANGED <<shared, config, sessionVars, result, actions, answer, bound,
                   status, ttsCalls, fresh, speakVars, actionVars>>

\* "Text-only processing"
MainRequestText ==
    /\ mpc = "m_request"
    /\ ~with_img
    /\ \E out \in DialogueOutcomes(provider) :
         LET r == dialogue(provider, out) IN
           /\ calls' = Append(calls, Call("dialogue", result, out))
           /\ IF r.raised
              THEN /\ mpc' = "m_crashed"
                   /\ UNCHANGED response
              ELSE /\ mpc' = "m_parse"
                   /\ response' = r.ret
    /\ UNCHANGED <<shared, config, sessionVars, result, actions, answer, bound,
                   status, ttsCalls, fresh, speakVars, actionVars>>

\* "actions & TTS": the first try block
MainParse ==
    /\ mpc = "m_parse"
    /\ LET p == ParseResponse(response) IN
         IF p.assigned
         THEN /\ actions' = p.actions
              /\ answer' = p.answer
              /\ bound' = TRUE
              /\ fresh' = TRUE
         ELSE UNCHANGED <<actions, answer, bound, fresh>>
    /\ mpc' = "m_tts"
    /\ UNCHANGED <<shared, config, sessionVars, result, response, status, calls,
                   ttsCalls, speakVars, actionVars>>


\* second try block: "_status = False; if answer != ''" with answer never
\* assigned raises UnboundLocalError, caught by "actions or TTS error"
MainTtsUnbound ==
    /\ mpc = "m_tts"
    /\ ~bound
    /\ status' = FALSE
    /\ mpc' = "m_listen"
    /\ UNCHANGED <<shared, config, sessionVars, result, response, actions, answer,
                   bound, turnLog, speakVars, actionVars>>

\* answer == '': no text-to-speech
MainTtsNoAnswer ==
    /\ mpc = "m_tts"
    /\ bound
    /\ answer = ""
    /\ status' = FALSE
    /\ mpc' = "m_pub_acq"
    /\ UNCHANGED <<shared, config, sessionVars, result, response, actions, answer,
                   bound, turnLog, speakVars, actionVars>>

\* a loop that loads the speech whatever _status is
AfterTtsAlwaysLoad(st) == "m_load_acq"

\* if _status: load the speech ; else: go on to publish the actions
AfterTts(st) == IF st THEN "m_load_acq" ELSE "m_pub_acq"

\* text_to_speech / simple_openai_tts(answer, ...): True, False, or raises
\* (caught: _status stays False); on True, tts_file = the volume file
MainTts ==
    /\ mpc = "m_tts"
    /\ bound
    /\ answer # ""
    /\ ttsCalls' = Append(ttsCalls, answer)
    /\ \E tts \in {"true", "false", "raise"} :
         IF tts = "true"
         THEN /\ status' = TRUE
              /\ tts_file' = VolFile
              /\ mpc' = "m_sox"
         ELSE /\ status' = FALSE
              /\ UNCHANGED tts_file
              /\ mpc' = AfterTts(FALSE)
    /\ UNCHANGED <<action_status, actions_to_be_done, action_lock, speech_loaded,
                   speech_lock, config, sessionVars, result, response, actions,
                   answer, bound, calls, fresh, speakVars, actionVars>>

\* _status = sox_volume(...): True, False, or raises (then the raw file is used)
MainSox ==
    /\ mpc = "m_sox"
    /\ \E sox \in {"true", "false", "raise"} :
         /\ status' = (sox # "false")
         /\ tts_file' = IF sox = "raise" THEN RawFile ELSE tts_file
         /\ mpc' = AfterTts(sox # "false")
    /\ UNCHANGED <<action_status, actions_to_be_done, action_lock, speech_loaded,
                   speech_lock, config, sessionVars, result, response, actions,
                   answer, bound, turnLog, speakVars, actionVars>>

\* if _status: with speech_lock:
MainLoadAcquire ==
    /\ mpc = "m_load_acq"
    /\ speech_lock = "free"
    /\ speech_lock' = "main"
    /\ mpc' = "m_load"
    /\ UNCHANGED <<action_status, actions_to_be_done, action_lock, speech_loaded,
                   tts_file, config, sessionVars, mainLocals, turnLog, speakVars,
                   actionVars>>

\* speech_loaded = True
MainLoadSpeech ==
    /\ mpc = "m_load"
    /\ speech_loaded' = TRUE
    /\ speech_lock' = "free"
    /\ mpc' = "m_pub_acq"
    /\ UNCHANGED <<action_status, actions_to_be_done, action_lock, tts_file, config, sessionVars,
                   mainLocals, turnLog, speakVars, actionVars>>

\* "---- actions ----": with action_lock:
MainPublishAcquire ==
    /\ mpc = "m_pub_acq"
    /\ action_lock = "free"
    /\ action_lock' = "main"
    /\ mpc' = "m_pub"
    /\ UNCHANGED <<action_status, actions_to_be_done, speech_loaded, tts_file,
                   speech_lock, config, sessionVars, mainLocals, turnLog, speakVars,
                   actionVars>>

\* a loop that does not wait for the playback
AfterPublishNoWait(st) == "m_wa_acq"

\* where main() goes after publishing: the wait for speech only if _status
AfterPublish(st) == IF st THEN "m_ws_acq" ELSE "m_wa_acq"

\* actions_to_be_done = actions ; action_status = 'actions'
MainPublish ==
    /\ mpc = "m_pub"
    /\ actions_to_be_done' = actions
    /\ action_status' = Actions
    /\ action_lock' = "free"
    /\ mpc' = AfterPublish(status)
    /\ UNCHANGED <<speech_loaded, tts_file, speech_lock, config, sessionVars, mainLocals, turnLog, speakVars, actionVars>>

\* "---- wait speak done ----": with speech_lock:
MainWaitSpeechAcquire ==
    /\ mpc = "m_ws_acq"
    /\ speech_lock = "free"
    /\ speech_lock' = "main"
    /\ mpc' = "m_ws"
    /\ UNCHANGED <<action_status, actions_to_be_done, action_lock, speech_loaded,
                   tts_file, config, sessionVars, mainLocals, turnLog, speakVars,
                   actionVars>>

\* a wait loop that breaks at its first poll, whatever the flag
SpeechDoneAlways(loaded) == TRUE

\* the exit test of the wait loop: if not speech_loaded: break
SpeechDone(loaded) == ~loaded

\* if not speech_loaded: break ; else sleep and poll again
MainWaitSpeech ==
    /\ mpc = "m_ws"
    /\ speech_lock' = "free"
    /\ mpc' = IF SpeechDone(speech_loaded) THEN "m_wa_acq" ELSE "m_ws_acq"
    /\ UNCHANGED <<action_status, actions_to_be_done, action_lock, speech_loaded,
                   tts_file, config, sessionVars, mainLocals, turnLog, speakVars,
                   actionVars>>

\* "---- wait actions done ----": with action_lock:
MainWaitActionsAcquire ==
    /\ mpc = "m_wa_acq"
    /\ action_lock = "free"
    /\ action_lock' = "main"
    /\ mpc' = "m_wa"
    /\ UNCHANGED <<action_status, actions_to_be_done, speech_loaded, tts_file,
                   speech_lock, config, sessionVars, mainLocals, turnLog, speakVars,
                   actionVars>>

\* if action_status != 'actions': break (end of the turn) ; else poll again
MainWaitActions ==
    /\ mpc = "m_wa"
    /\ action_lock' = "free"
    /\ mpc' = IF action_status # Actions THEN "m_listen" ELSE "m_wa_acq"
    /\ UNCHANGED <<action_status, actions_to_be_done, speech_loaded, tts_file,
                   speech_lock, config, sessionVars, mainLocals, turnLog, speakVars,
                   actionVars>>

MainStep ==
    \/ MainListen \/ MainSetStandby
    \/ MainCapture \/ MainCaptureSkip
    \/ MainThinkAcquire \/ MainSetThink
    \/ MainRequestImg \/ MainFallback \/ MainRequestText
    \/ MainParse \/ MainTtsUnbound \/ MainTtsNoAnswer \/ MainTts \/ MainSox
    \/ MainLoadAcquire \/ MainLoadSpeech
    \/ MainPublishAcquire \/ MainPublish
    \/ MainWaitSpeechAcquire \/ MainWaitSpeech
    \/ MainWaitActionsAcquire \/ MainWaitActions

(***************************************************************************)
(* Speech Worker (speak_hanlder).                                          *)
(***************************************************************************)
\* with speech_lock:
SpeakAcquire ==
    /\ Running
    /\ spc = "s_acq"
    /\ speech_lock = "free"
    /\ speech_lock' = "speak"
    /\ spc' = "s_read"
    /\ UNCHANGED <<action_status, actions_to_be_done, action_lock, speech_loaded,
                   tts_file, config, sessionVars, mainVars, s_isloaded, actionVars>>

\* _isloaded = speech_loaded ; if not loaded, sleep and poll again
SpeakRead ==
    /\ Running
    /\ spc = "s_read"
    /\ s_isloaded' = speech_loaded
    /\ speech_lock' = "free"
    /\ spc' = IF speech_loaded THEN "s_play" ELSE "s_acq"
    /\ UNCHANGED <<action_status, actions_to_be_done, action_lock, speech_loaded,
                   tts_file, config, sessionVars, mainVars, actionVars>>

\* where the worker goes when my_dog.speak_block raises: the call is not
\* inside a try, so the exception ends the thread
AfterPlaybackError == "s_dead"

\* my_dog.speak_block(tts_file): returns, or raises
SpeakPlay ==
    /\ Running
    /\ spc = "s_play"
    /\ \E ok \in BOOLEAN : spc' = IF ok THEN "s_clr_acq" ELSE AfterPlaybackError
    /\ UNCHANGED <<shared, config, sessionVars, mainVars, s_isloaded, actionVars>>

\* with speech_lock:
SpeakClearAcquire ==
    /\ Running
    /\ spc = "s_clr_acq"
    /\ speech_lock = "free"
    /\ speech_lock' = "speak"
    /\ spc' = "s_clr"
    /\ UNCHANGED <<action_status, actions_to_be_done, action_lock, speech_loaded,
                   tts_file, config, sessionVars, mainVars, s_isloaded, actionVars>>

\* speech_loaded = False
SpeakClear ==
    /\ Running
    /\ spc = "s_clr"
    /\ speech_loaded' = FALSE
    /\ speech_lock' = "free"
    /\ spc' = "s_acq"
    /\ UNCHANGED <<action_status, actions_to_be_done, action_lock, tts_file, config, sessionVars,
                   mainVars, s_isloaded, actionVars>>

SpeakStep ==
    SpeakAcquire \/ SpeakRead \/ SpeakPlay \/ SpeakClearAcquire \/ SpeakClear


(***************************************************************************)
(* Action Worker (action_handler).                                         *)
(***************************************************************************)
Run(a, raised) == [a |-> a, raised |-> raised]

\* with action_lock:
ActAcquire ==
    /\ Running
    /\ apc = "a_acq"
    /\ action_lock = "free"
    /\ action_lock' = "action"
    /\ apc' = "a_read"
    /\ UNCHANGED <<action_status, actions_to_be_done, speech_loaded, tts_file,
                   speech_lock, config, sessionVars, mainVars, speakVars, a_state, a_actions,
                   a_idx, ran>>

\* _state = action_status
ActRead ==
    /\ Running
    /\ apc = "a_read"
    /\ a_state' = action_status
    /\ action_lock' = "free"
    /\ ran' = <<>>
    /\ apc' = "a_disp"
    /\ UNCHANGED <<action_status, actions_to_be_done, speech_loaded, tts_file,
                   speech_lock, config, sessionVars, mainVars, speakVars, a_actions, a_idx>>

\* _state == 'standby': when the interval has elapsed, run one idle filler
\* (outside any try: an exception ends the thread); then sleep
ActStandby ==
    /\ Running
    /\ apc = "a_disp"
    /\ a_state = Standby
    /\ \/ /\ apc' = "a_acq"
          /\ UNCHANGED ran
       \/ \E choice \in standby_actions, raised \in BOOLEAN :
            /\ ran' = Append(ran, Run(choice, raised))
            /\ apc' = IF raised THEN "a_dead" ELSE "a_acq"
    /\ UNCHANGED <<shared, config, sessionVars, mainVars, speakVars, a_state, a_actions, a_idx>>

\* a worker whose filler for 'think' is an idle filler
ThinkFillerIdle == "waiting"

\* the filler of the 'think' phase
ThinkFiller == "think"

\* _state == 'think': action_flow.run('think')
ActThink ==
    /\ Running
    /\ apc = "a_disp"
    /\ a_state = Think
    /\ \E raised \in BOOLEAN :
         /\ ran' = Append(ran, Run(ThinkFiller, raised))
         /\ apc' = IF raised THEN "a_dead" ELSE "a_acq"
    /\ UNCHANGED <<shared, config, sessionVars, mainVars, speakVars, a_state, a_actions, a_idx>>

\* _state == 'actions_done' (no branch): sleep
ActIdle ==
    /\ Running
    /\ apc = "a_disp"
    /\ a_state = ActionsDone
    /\ apc' = "a_acq"
    /\ UNCHANGED <<shared, config, sessionVars, mainVars, speakVars, a_state, a_actions, a_idx, ran>>

\* _state == 'actions': with action_lock:
ActQueueAcquire ==
    /\ Running
    /\ apc = "a_disp"
    /\ a_state = Actions
    /\ action_lock = "free"
    /\ action_lock' = "action"
    /\ apc' = "a_queue"
    /\ UNCHANGED <<action_status, actions_to_be_done, speech_loaded, tts_file,
                   speech_lock, config, sessionVars, mainVars, speakVars, a_state, a_actions,
                   a_idx, ran>>

\* a worker that keeps action_lock while it runs the batch
LockHeldOverBatch == "action"

\* the "with action_lock" block ends after the queue is read
LockAfterQueueRead == "free"

\* _actions = actions_to_be_done
ActReadQueue ==
    /\ Running
    /\ apc = "a_queue"
    /\ a_actions' = actions_to_be_done
    /\ a_idx' = 1
    /\ action_lock' = LockAfterQueueRead
    /\ apc' = "a_run"
    /\ UNCHANGED <<action_status, actions_to_be_done, speech_loaded, tts_file,
                   speech_lock, config, sessionVars, mainVars, speakVars, a_state, ran>>

\* a loop that skips the action after each one it ran
NextIndexSkip(i, n, raised) == i + 2

\* a loop that stops at the first action that raises
NextIndexAbort(i, n, raised) == IF raised THEN n + 1 ELSE i + 1

\* the index of the for loop after the action at index i of n has run:
\* "except Exception" catches the failure and the loop goes on
NextIndex(i, n, raised) == i + 1

\* a loop that ends after its first action
LoopDoneEarly(i, n) == i > n \/ i > 1

\* "for _action in _actions" is exhausted
LoopDone(i, n) == i > n

\* for _action in _actions: try: action_flow.run(_action) except: print
ActRun ==
    /\ Running
    /\ apc = "a_run"
    /\ ~LoopDone(a_idx, Len(a_actions))
    /\ \E raised \in BOOLEAN :
         /\ ran' = Append(ran, Run(a_actions[a_idx], raised))
         /\ a_idx' = NextIndex(a_idx, Len(a_actions), raised)
    /\ UNCHANGED <<shared, config, sessionVars, mainVars, speakVars, apc, a_state, a_actions>>

\* after the loop: with action_lock:
ActDoneAcquire ==
    /\ Running
    /\ apc = "a_run"
    /\ LoopDone(a_idx, Len(a_actions))
    /\ action_lock = "free"
    /\ action_lock' = "action"
    /\ apc' = "a_done"
    /\ UNCHANGED <<action_status, actions_to_be_done, speech_loaded, tts_file,
                   speech_lock, config, sessionVars, mainVars, speakVars, a_state, a_actions,
                   a_idx, ran>>

\* action_status = 'actions_done'.  _actions and the loop variable are not
\* read again before the next batch assigns them: the model forgets them here
ActSetDone ==
    /\ Running
    /\ apc = "a_done"
    /\ action_status' = ActionsDone
    /\ action_lock' = "free"
    /\ apc' = "a_acq"
    /\ a_actions' = <<>>
    /\ a_idx' = 1
    /\ UNCHANGED <<actions_to_be_done, speech_loaded, tts_file, speech_lock, config, sessionVars,
                   mainVars, speakVars, a_state, ran>>

ActionStep ==
    \/ ActAcquire \/ ActRead \/ ActStandby \/ ActThink \/ ActIdle
    \/ ActQueueAcquire \/ ActReadQueue \/ ActRun \/ ActDoneAcquire \/ ActSetDone

(***************************************************************************)
(* Specifications.                                                         *)
(***************************************************************************)
Next ==
    \/ MainListen \/ MainSetStandby
    \/ MainCapture \/ MainCaptureSkip
    \/ MainThinkAcquire \/ MainSetThink
    \/ MainRequestImg \/ MainFallback \/ MainRequestText
    \/ MainParse \/ MainTtsUnbound \/ MainTtsNoAnswer \/ MainTts \/ MainSox
    \/ MainLoadAcquire \/ MainLoadSpeech
    \/ MainPublishAcquire \/ MainPublish
    \/ MainWaitSpeechAcquire \/ MainWaitSpeech
    \/ MainWaitActionsAcquire \/ MainWaitActions
    \/ SpeakAcquire \/ SpeakRead \/ SpeakPlay \/ SpeakClearAcquire \/ SpeakClear
    \/ ActAcquire \/ ActRead \/ ActStandby \/ ActThink \/ ActIdle
    \/ ActQueueAcquire \/ ActReadQueue \/ ActRun \/ ActDoneAcquire \/ ActSetDone

Spec == Init /\ [][Next]_vars

\* The three threads are scheduled by the operating system and every polling
\* loop sleeps between two acquisitions of a lock, so a thread that is ready
\* again and again eventually takes its step.
FairSpec ==
    Spec /\ SF_vars(MainStep) /\ SF_vars(SpeakStep) /\ SF_vars(ActionStep)


(***************************************************************************)
(* Conversation builder (build_api_messages).  The cards are dictionaries  *)
(* read from JSON files or typed in by the user: a field may be missing,   *)
(* the empty string, or a text; a preset list may be missing or hold       *)
(* entries of which some are empty.                                        *)
(***************************************************************************)
MaxEntries == 3

\* a key of a dict: missing, or present with a value
Missing == [has |-> FALSE, v |-> ""]
Present(v) == [has |-> TRUE, v |-> v]
FieldValues(text) == {Missing, Present(""), Present(text)}

NoCharacter ==
    [none |-> TRUE, description |-> Missing, system_prompt |-> Missing,
     first_message |-> Missing]
Characters ==
    {NoCharacter} \cup
    {[none |-> FALSE, description |-> d, system_prompt |-> sp,
      first_message |-> fm] :
        d \in FieldValues("C1"), sp \in FieldValues("X"),
        fm \in FieldValues("Hi")}

NoPersona == [none |-> TRUE, system_prompt |-> Missing]
Personas ==
    {NoPersona} \cup
    {[none |-> FALSE, system_prompt |-> sp] : sp \in FieldValues("S1")}

\* the i-th entry of a preset list: the second one is the empty string
Entry(first, tag, i) ==
    IF i = 1 THEN first ELSE IF i = 2 THEN "" ELSE tag \o ToString(i)
MissingList == [has |-> FALSE, v |-> <<>>]
Lists(first, tag) ==
    {MissingList} \cup
    {Present([i \in 1..n |-> Entry(first, tag, i)]) : n \in 0..MaxEntries}
Presets ==
    {[none |-> FALSE, system_prompts |-> a, system_prefixes |-> b,
      assistant_prompts |-> c] :
        a \in Lists("P1", "P"), b \in Lists("[new]", "F"),
        c \in Lists("A1", "A")}

\* truth value of a card in "character and ...": None and {} are false
Truthy(card) == ~card.none
\* 'key' in card
In(field) == field.has
\* preset.get(key, [])
Get(field) == IF field.has THEN field.v ELSE <<>>

Message(role, content) == [role |-> role, content |-> content]
\* for x in list: messages.append({"role": role, "content": x})
Each(role, list) == [i \in 1..Len(list) |-> Message(role, list[i])]

PresetSystemPrompts(preset) == Each("system", Get(preset.system_prompts))

PersonaPrompt(persona) ==
    IF Truthy(persona) /\ In(persona.system_prompt)
    THEN <<Message("system", persona.system_prompt.v)>>
    ELSE <<>>

CharacterPrompt(character) ==
    IF Truthy(character) /\ In(character.description)
    THEN <<Message("system", character.description.v)>>
    ELSE IF Truthy(character) /\ In(character.system_prompt)
         THEN <<Message("system", character.system_prompt.v)>>
         ELSE <<>>

PresetPrefixes(preset) == Each("system", Get(preset.system_prefixes))

FirstMessage(character) ==
    IF Truthy(character) /\ In(character.first_message)
                         /\ character.first_message.v # ""
    THEN <<Message("assistant", character.first_message.v)>>
    ELSE <<>>

PresetAssistantPrompts(preset) ==
    Each("assistant", Get(preset.assistant_prompts))

\* a builder that puts the persona before the preset's system prompts
build_persona_first(character, persona, preset) ==
    PersonaPrompt(persona) \o PresetSystemPrompts(preset)
        \o CharacterPrompt(character) \o PresetPrefixes(preset)
        \o FirstMessage(character) \o PresetAssistantPrompts(preset)

build_api_messages(character, persona, preset) ==
    PresetSystemPrompts(preset) \o PersonaPrompt(persona)
        \o CharacterPrompt(character) \o PresetPrefixes(preset)
        \o FirstMessage(character) \o PresetAssistantPrompts(preset)

\* the cards have been selected (from files, or typed in)
BuildInit ==
    /\ LoopInit
    /\ provider = "anthropic"
    /\ with_img = FALSE
    /\ selected_character \in Characters
    /\ selected_persona \in Personas
    /\ selected_preset \in Presets
    /\ messages = <<>>
    /\ bpc = "b_cards"
    /\ HistoryInit
    /\ StartedInit

\* api_handler.conversation_history = build_api_messages(selected_character,
\*     selected_persona, selected_preset)
Build ==
    /\ bpc = "b_cards"
    /\ messages' = build_api_messages(selected_character, selected_persona,
                                      selected_preset)
    /\ bpc' = "b_built"
    /\ UNCHANGED <<loopVars, handlerVars, startVars, selected_character,
                   selected_persona, selected_preset>>

BuildNext == Build

BuildSpec == BuildInit /\ [][BuildNext]_vars


(***************************************************************************)
(* The handler's conversation over a sequence of turns.  Only main() calls *)
(* the handler, and the steps of a turn after the response is parsed do    *)
(* not touch it, so the turn is followed here from the request to the      *)
(* parsed response, with the workers left aside.                           *)
(***************************************************************************)
\* turns are started while the conversation is shorter than this
MaxHistory == 3

\* a message of the conversation; image: the content carries the picture
\* next to the text
TextMessage(role, content) ==
    [role |-> role, content |-> content, image |-> FALSE]
ImageMessage(role, content) ==
    [role |-> role, content |-> content, image |-> TRUE]
Plain(m) == TextMessage(m.role, m.content)

\* replies the handlers are followed with: the ones of the loop, a dict
\* literal with a JSON literal in an extra field, and expressions
JsonLitText ==
    StructText("{actions,answer:'ok',happy:true}", TRUE,
               SubSeq(ActionPool, 1, 1), TRUE, "ok", TRUE, FALSE)
HandlerTexts ==
    ReplyTexts \cup {JsonLitText, ExprText("42", <<42>>), ExprText("1+1", <<1, 1>>)}

\* runerror: openai only, the call that runs the assistant raises after the
\* user message has been created in the thread
HandlerDialogueOutcomes(p) ==
    {Outcome("reply", t) : t \in HandlerTexts} \cup {Outcome("error", NoText)}
    \cup (IF p = "openai"
          THEN {Outcome("incomplete", NoText), Outcome("runerror", NoText)}
          ELSE {})
HandlerImgOutcomes(p) ==
    HandlerDialogueOutcomes(p)
    \cup {Outcome("reject", NoText), Outcome("imgfail", NoText)}

\* self.conversation_history.append(user) ; on a reply, append(assistant)
GenericDialogueHistory(h, msg, out) ==
    IF out.o = "reply"
    THEN h \o <<TextMessage("user", msg), TextMessage("assistant", out.text.raw)>>
    ELSE h \o <<TextMessage("user", msg)>>

\* open(img_path) raises before anything is appended
GenericDialogueWithImgHistory(h, msg, out) ==
    CASE out.o = "imgfail" -> h
      [] out.o = "reply" ->
            h \o <<ImageMessage("user", msg), TextMessage("assistant", out.text.raw)>>
      [] OTHER -> h \o <<ImageMessage("user", msg)>>

\* threads.messages.create adds the user message to the thread; a completed
\* run adds the assistant's message
OpenAIDialogueThread(h, msg, out) ==
    CASE out.o = "reply" ->
            h \o <<TextMessage("user", msg), TextMessage("assistant", out.text.raw)>>
      [] out.o \in {"incomplete", "runerror"} -> h \o <<TextMessage("user", msg)>>
      [] OTHER -> h

OpenAIDialogueWithImgThread(h, msg, out) ==
    CASE out.o = "reply" ->
            h \o <<ImageMessage("user", msg), TextMessage("assistant", out.text.raw)>>
      [] out.o \in {"incomplete", "runerror"} -> h \o <<ImageMessage("user", msg)>>
      [] OTHER -> h

\* a handler that keeps a window: appending drops the oldest message
DialogueHistoryWindow(p, h, msg, out) ==
    IF h = <<>> THEN <<TextMessage("user", msg)>>
    ELSE Tail(h) \o <<TextMessage("user", msg)>>

DialogueHistory(p, h, msg, out) ==
    IF p = "openai" THEN OpenAIDialogueThread(h, msg, out)
    ELSE GenericDialogueHistory(h, msg, out)
DialogueWithImgHistory(p, h, msg, out) ==
    IF p = "openai" THEN OpenAIDialogueWithImgThread(h, msg, out)
    ELSE GenericDialogueWithImgHistory(h, msg, out)

ReplyOf(out) == IF out.o = "reply" THEN out.text ELSE NoText

\* the cards the handlers are followed with: no character, or one with a
\* description; no persona; a preset without lists
HandlerCharacters ==
    {NoCharacter,
     [NoCharacter EXCEPT !.none = FALSE, !.description = Present("C1")]}
EmptyPreset ==
    [none |-> FALSE, system_prompts |-> MissingList,
     system_prefixes |-> MissingList, assistant_prompts |-> MissingList]

\* the conversation when the loop starts: for openai the thread with the
\* character's instructions as a user message (none if there is no
\* character: .get on None raises and the error is only printed); for the
\* other handlers what build_api_messages made of the cards
InitialConversation(p, character) ==
    IF p = "openai"
    THEN IF Truthy(character)
         THEN <<TextMessage("user",
                    "System instructions (not visible to user): "
                        \o character.description.v)>>
         ELSE <<>>
    ELSE LET built == build_api_messages(character, NoPersona, EmptyPreset)
         IN [i \in 1..Len(built) |-> Plain(built[i])]

\* the handler has been created and the loop is about to start
HandlerInit ==
    /\ LoopInit
    /\ CardsInit
    /\ \E c \in HandlerCharacters :
          conversation_history = InitialConversation(provider, c)
    /\ mark = 0
    /\ assistant_msg = NoText
    /\ StartedInit

\* a text has been captured and 'think' set: response = {} ;
\* response = api_handler.dialogue_with_img(_result, img_path)
TurnRequestImg ==
    /\ mpc = "m_listen"
    /\ with_img
    /\ Len(conversation_history) < MaxHistory
    /\ \E txt \in Inputs, out \in HandlerImgOutcomes(provider) :
         LET r == dialogue_with_img(provider, out) IN
         /\ result' = txt
         /\ calls' = <<Call("dialogue_with_img", txt, out)>>
         /\ mark' = Len(conversation_history)
         /\ conversation_history' =
                DialogueWithImgHistory(provider, conversation_history, txt, out)
         /\ assistant_msg' = ReplyOf(out)
         /\ response' = IF r.raised THEN EmptyDict ELSE r.ret
         /\ mpc' = IF r.raised THEN "m_fallback" ELSE "m_parse"
    /\ UNCHANGED <<shared, config, cardVars, startVars, actions, answer, bound, status,
                   ttsCalls, fresh, speakVars, actionVars>>

\* except Exception: response = api_handler.dialogue(_result)
TurnFallback ==
    /\ mpc = "m_fallback"
    /\ \E out \in HandlerDialogueOutcomes(provider) :
         LET r == dialogue(provider, out) IN
         /\ calls' = Append(calls, Call("dialogue", FallbackText(result), out))
         /\ conversation_history' =
                DialogueHistory(provider, conversation_history,
                                FallbackText(result), out)
         /\ assistant_msg' = ReplyOf(out)
         /\ response' = IF r.raised THEN response ELSE r.ret
         /\ mpc' = IF r.raised THEN "m_crashed" ELSE "m_parse"
    /\ UNCHANGED <<shared, config, cardVars, startVars, mark, result, actions, answer,
                   bound, status, ttsCalls, fresh, speakVars, actionVars>>

\* a text has been captured and 'think' set: response = {} ;
\* response = api_handler.dialogue(_result)
TurnRequestText ==
    /\ mpc = "m_listen"
    /\ ~with_img
    /\ Len(conversation_history) < MaxHistory
    /\ \E txt \in Inputs, out \in HandlerDialogueOutcomes(provider) :
         LET r == dialogue(provider, out) IN
         /\ result' = txt
         /\ calls' = <<Call("dialogue", txt, out)>>
         /\ mark' = Len(conversation_history)
         /\ conversation_history' =
                DialogueHistory(provider, conversation_history, txt, out)
         /\ assistant_msg' = ReplyOf(out)
         /\ response' = IF r.raised THEN EmptyDict ELSE r.ret
         /\ mpc' = IF r.raised THEN "m_crashed" ELSE "m_parse"
    /\ UNCHANGED <<shared, config, cardVars, startVars, actions, answer, bound, status,
                   ttsCalls, fresh, speakVars, actionVars>>

\* the turn's actions and answer from the response; the rest of the turn
\* leaves the handler alone, and main() comes back for the next request
TurnParse ==
    /\ mpc = "m_parse"
    /\ LET p == ParseResponse(response) IN
         /\ actions' = IF p.assigned THEN p.actions ELSE actions
         /\ answer' = IF p.assigned THEN p.answer ELSE answer
         /\ bound' = (bound \/ p.assigned)
         /\ fresh' = p.assigned
    /\ mpc' = "m_listen"
    /\ UNCHANGED <<shared, config, sessionVars, result, response, status,
                   calls, ttsCalls, speakVars, actionVars>>

HandlerNext == TurnRequestImg \/ TurnFallback \/ TurnRequestText \/ TurnParse

HandlerSpec == HandlerInit /\ [][HandlerNext]_vars


(***************************************************************************)
(* The first try block of the turn on its own: the actions and the answer  *)
(* main() takes from a structured response, over action lists with         *)
(* repeated and interleaved voice actions.                                 *)
(***************************************************************************)
\* every action list of up to MaxActions entries of the pool
ActionLists ==
    UNION {[1..n -> {ActionPool[i] : i \in 1..Len(ActionPool)}] :
               n \in 0..MaxActions}
ParseResponses ==
    {DictVal(TRUE, acts, TRUE, ans, FALSE) :
        acts \in ActionLists, ans \in {"", "ok"}}

\* response = api_handler.dialogue(...) has returned a structured response
ParseReceive ==
    /\ mpc = "m_listen"
    /\ ~bound
    /\ \E r \in ParseResponses : response' = r
    /\ mpc' = "m_parse"
    /\ UNCHANGED <<shared, config, sessionVars, result, actions, answer, bound,
                   status, turnLog, speakVars, actionVars>>

ParseNext == ParseReceive \/ TurnParse

ParseInit == Init /\ provider = "anthropic" /\ ~with_img

ParseSpec == ParseInit /\ [][ParseNext]_vars


(***************************************************************************)
(* Start-up: the module-level statements of gpt_dog.py and the beginning   *)
(* of main(), in the order the interpreter runs them, up to the creation   *)
(* of the API handler.                                                     *)
(***************************************************************************)
\* parser.add_argument('--provider', type=str, default='openai', ...)
DefaultProvider == "openai"

\* args = parser.parse_args()
args ==
    [provider |-> IF argv.provider.has THEN argv.provider.v
                  ELSE DefaultProvider,
     config |-> argv.config,
     no_img |-> argv.no_img,
     interactive |-> argv.interactive]

\* truth value of a str
StrTruthy(str) == str # ""

ProviderOptions == {NoName} \cup {Name(p) : p \in Providers}

\* gpt_dog.py [--provider P] [--config FILE] [--no-img] [--interactive]
CommandLines ==
    [provider : ProviderOptions, config : BOOLEAN, no_img : BOOLEAN,
     interactive : BOOLEAN]

\* the --config file: unreadable, or a JSON object with or without 'provider'
ConfigFiles ==
    {[ok |-> FALSE, provider |-> NoName]}
        \cup [ok : {TRUE}, provider : ProviderOptions]

\* what load_auto_launch_config() returns: None, or the configuration the
\* set-up helper saved (with_img, api_config with its provider)
AutoLaunchConfigs ==
    {NoAutoLaunch}
        \cup [none : {FALSE}, with_img : {NoFlag, Flag(TRUE), Flag(FALSE)},
              api_config : ProviderOptions]

\* api_config = {'provider': 'openai', ...}
DefaultApiConfig == [provider |-> "openai"]

\* dict.update with a dict that has the key 'provider' or not
Update(dict, field) == IF field.has THEN [provider |-> field.v] ELSE dict

\* the variables start-up leaves alone
runVars == <<shared, mainVars, speakVars, actionVars, cardVars, handlerVars>>

\* the process has been started; no start-up statement has run (with_img,
\* api_config, use_interactive and the handler are assigned before their
\* first use)
ConfigInit ==
    /\ LoopInit
    /\ provider = DefaultProvider
    /\ with_img = FALSE
    /\ CardsInit
    /\ HistoryInit
    /\ argv \in CommandLines
    /\ files \in [interactive_mode : BOOLEAN, auto_launch : AutoLaunchConfigs,
                  config_file : ConfigFiles]
    /\ ~argv.config => files.config_file = [ok |-> TRUE, provider |-> NoName]
    /\ auto_launch_config = NoAutoLaunch
    /\ use_interactive = TRUE
    /\ api_config = DefaultApiConfig
    /\ vilib_available = "unset"
    /\ cpc = "c_start"

\* auto_launch_config = load_auto_launch_config()
\* if auto_launch_config: if "with_img" in auto_launch_config: with_img = ...
ConfigAutoLaunch ==
    /\ cpc = "c_start"
    /\ auto_launch_config' = files.auto_launch
    /\ with_img' = IF ~files.auto_launch.none /\ files.auto_launch.with_img.has
                   THEN files.auto_launch.with_img.v
                   ELSE with_img
    /\ cpc' = "c_args"
    /\ UNCHANGED <<runVars, provider, argv, files, use_interactive, api_config,
                   vilib_available>>

\* with_img = not args.no_img
ConfigImage ==
    /\ cpc = "c_args"
    /\ with_img' = ~args.no_img
    /\ cpc' = "c_interactive"
    /\ UNCHANGED <<runVars, provider, argv, files, auto_launch_config,
                   use_interactive, api_config, vilib_available>>

\* use_interactive = True ; forced by the INTERACTIVE_MODE file or
\* --interactive ; else False when an API argument is present
ConfigInteractive ==
    /\ cpc = "c_interactive"
    /\ use_interactive' =
          IF files.interactive_mode THEN TRUE
          ELSE IF args.interactive THEN TRUE
          ELSE IF \/ argv.provider.has
                  \/ argv.config
                  \/ args.config
                  \/ StrTruthy(args.provider)
               THEN FALSE
               ELSE TRUE
    /\ cpc' = "c_api"
    /\ UNCHANGED <<runVars, config, argv, files, auto_launch_config, api_config,
                   vilib_available>>

\* api_config = {...} ; if args.config: api_config.update(file_config) ;
\* if args.provider: api_config['provider'] = args.provider
\* (load_config_from_file exits the process when the file cannot be read)
ConfigApi ==
    /\ cpc = "c_api"
    /\ IF args.config /\ ~files.config_file.ok
       THEN /\ api_config' = DefaultApiConfig
            /\ cpc' = "c_exit"
       ELSE /\ api_config' =
                  LET fromFile == IF args.config
                                  THEN Update(DefaultApiConfig,
                                              files.config_file.provider)
                                  ELSE DefaultApiConfig
                  IN  IF StrTruthy(args.provider)
                      THEN [provider |-> args.provider]
                      ELSE fromFile
            /\ cpc' = "c_vilib"
    /\ UNCHANGED <<runVars, config, argv, files, auto_launch_config,
                   use_interactive, vilib_available>>

\* if with_img: try: from vilib import Vilib ... vilib_available = True
\* except ImportError: with_img = False ; vilib_available = False
\* (any other exception of the camera start ends the process)
ConfigVilib ==
    /\ cpc = "c_vilib"
    /\ IF with_img
       THEN \E outcome \in {"ok", "ImportError", "error"} :
               /\ with_img' = (outcome # "ImportError")
               /\ vilib_available' = CASE outcome = "ok" -> "true"
                                       [] outcome = "ImportError" -> "false"
                                       [] OTHER -> vilib_available
               /\ cpc' = IF outcome = "error" THEN "c_exit" ELSE "c_main"
       ELSE /\ UNCHANGED <<with_img, vilib_available>>
            /\ cpc' = "c_main"
    /\ UNCHANGED <<runVars, provider, argv, files, auto_launch_config,
                   use_interactive, api_config>>

\* main(): if using_auto_launch and "api_config" in auto_launch_config:
\*     api_config.update(auto_launch_config["api_config"])
\* elif use_interactive: api_config.update(interactive_api_setup())
MainApiSetup ==
    /\ cpc = "c_main"
    /\ IF ~auto_launch_config.none /\ auto_launch_config.api_config.has
       THEN api_config' = Update(api_config, auto_launch_config.api_config)
       ELSE IF use_interactive
            THEN \E p \in Providers : api_config' = Update(api_config, Name(p))
            ELSE UNCHANGED api_config
    /\ cpc' = "c_handler"
    /\ UNCHANGED <<runVars, config, argv, files, auto_launch_config,
                   use_interactive, vilib_available>>

\* api_handler = APIFactory.create_api_handler(api_config['provider'], ...)
\* except Exception: sys.exit(1)
MainCreateHandler ==
    /\ cpc = "c_handler"
    /\ \E created \in BOOLEAN :
          IF created
          THEN /\ provider' = api_config.provider
               /\ cpc' = "c_loop"
          ELSE /\ UNCHANGED provider
               /\ cpc' = "c_exit"
    /\ UNCHANGED <<runVars, with_img, argv, files, auto_launch_config,
                   use_interactive, api_config, vilib_available>>

ConfigNext ==
    \/ ConfigAutoLaunch
    \/ ConfigImage
    \/ ConfigInteractive
    \/ ConfigApi
    \/ ConfigVilib
    \/ MainApiSetup
    \/ MainCreateHandler

ConfigSpec == ConfigInit /\ [][ConfigNext]_vars


(***************************************************************************)
(* Properties.                                                             *)
(***************************************************************************)
InRequest == mpc \in {"m_request", "m_fallback"}
\* main() is past the request of the turn and before the end of the turn
InEpilogue ==
    mpc \in {"m_parse", "m_tts", "m_sox", "m_load_acq", "m_load", "m_pub_acq",
             "m_pub", "m_ws_acq", "m_ws", "m_wa_acq", "m_wa"}
InSpeechWait == mpc \in {"m_ws_acq", "m_ws"}
BatchInProgress == apc \in {"a_queue", "a_run", "a_done"}
PlaybackInProgress == spc \in {"s_play", "s_clr_acq", "s_clr"}
LastCall == calls[Len(calls)]
\* the request that decided the turn's response failed at the provider
TurnFailed ==
    /\ InEpilogue
    /\ calls # <<>>
    /\ LastCall.o \in {"error", "reject", "incomplete"}
RanActions == [i \in 1..Len(ran) |-> ran[i].a]

\* C1: whenever main() is about to issue dialogue or dialogue_with_img,
\* action_status is not 'actions', speech_loaded is false, and neither the
\* previous batch nor the previous playback is still in progress.
C1_TurnsSerialized ==
    InRequest =>
        /\ action_status # Actions
        /\ ~speech_loaded
        /\ ~BatchInProgress
        /\ ~PlaybackInProgress

\* a request is about to be issued in a turn that follows a turn with speech
\* and a non-empty batch
C1_Witness ==
    /\ mpc = "m_request"
    /\ action_status = Think
    /\ tts_file # NoFile
    /\ actions_to_be_done # <<>>

\* C2: whenever a batch is published ('actions'), it is the action list that
\* was computed in this turn, never one left over from an earlier turn.
C2_NoStaleBatch == action_status = Actions => fresh

\* C3: the Speech Worker survives a failing playback and clears the flag: it
\* is never dead with speech_loaded still true.
C3_PlaybackFailureClearsFlag == ~(spc = "s_dead" /\ speech_loaded)

\* C4: the wait for speech is bounded: main() always leaves the
\* wait-for-speech loop, also when nobody clears the flag.
C4_SpeechWaitEnds == InSpeechWait ~> ~InSpeechWait

\* C5: when the Action Worker sets 'actions_done', the actions it ran in this
\* iteration are exactly the published batch, each once and in list order,
\* whichever of them raised.
C5_FailuresIsolated ==
    [][(action_status' = ActionsDone /\ action_status # ActionsDone)
         => /\ RanActions = actions_to_be_done
            /\ a_actions = actions_to_be_done]_vars

\* the worker has run a batch of three whose second action raised and is about
\* to set 'actions_done'
C5_Witness ==
    /\ apc = "a_done"
    /\ Len(a_actions) = 3
    /\ Len(ran) = 3
    /\ ~ran[1].raised /\ ran[2].raised /\ ~ran[3].raised

\* C6: in a turn whose request failed with a provider error, text-to-speech is
\* not attempted, speech_loaded is not set, and the published batch is ['stop'].
C6_FailedTurnSilent ==
    TurnFailed =>
        /\ ttsCalls = <<>>
        /\ ~speech_loaded
        /\ (action_status = Actions => actions_to_be_done = DefaultActions)

\* C7: a provider error never unwinds out of main().
C7_ProviderErrorNotFatal == mpc # "m_crashed"

\* C8: when the provider rejected the turn's image request, main() has called
\* dialogue with the same text before it takes the turn's response.
C8_ImageRejectFallsBack ==
    (mpc = "m_parse" /\ calls[1].op = "dialogue_with_img" /\ calls[1].o = "reject")
        => /\ Len(calls) = 2
           /\ calls[2].op = "dialogue"
           /\ calls[2].text = calls[1].text

\* C9: action_status becomes 'actions_done' only by a step of the Action
\* Worker that observed 'actions' and has exhausted its batch; main() never
\* writes it; a worker step changes action_status only after observing
\* 'actions'.
C9_DoneOnlyByWorker ==
    [][/\ (action_status' = ActionsDone /\ action_status # ActionsDone)
            => /\ apc = "a_done"
               /\ a_state = Actions
               /\ a_idx > Len(a_actions)
               /\ a_actions = actions_to_be_done
               /\ UNCHANGED mainVars
       /\ (action_status' # action_status /\ apc' # apc) => a_state = Actions]_vars

\* the worker has just set 'actions_done' after a batch of several actions
C9_Witness ==
    /\ action_status = ActionsDone
    /\ apc = "a_acq"
    /\ a_state = Actions
    /\ Len(ran) > 1

\* C10: action_status changes to 'actions' only from 'think', by main()'s
\* publish step; never directly from 'standby'.
C10_ActionsOnlyAfterThink ==
    [][(action_status' = Actions /\ action_status # Actions)
         => (action_status = Think /\ mpc = "m_pub")]_vars

\* a batch is published while the worker is still running the think filler
C10_Witness ==
    /\ action_status = Actions
    /\ a_state = Think
    /\ fresh

\* C11: the Action Worker is never handed an empty queue: whenever
\* action_status is 'actions', actions_to_be_done holds at least one action.
C11_NoEmptyBatch == action_status = Actions => actions_to_be_done # <<>>

\* C12: speech_loaded is false when main() starts a turn (input capture) and
\* when it has ended one, whether the turn ran to the end of its waits or was
\* cut short by the exception handler of the speak-and-act block.
C12_FlagClearAtTurnBounds ==
    mpc \in {"m_listen", "m_standby", "m_capture"} => ~speech_loaded

\* a turn that loaded speech and published its batch has ended
C12_Witness ==
    /\ mpc = "m_listen"
    /\ status
    /\ ttsCalls # <<>>
    /\ tts_file # NoFile
    /\ action_status = ActionsDone

\* C13: at most one playback is outstanding: main() sets speech_loaded only
\* when it is false, and writes tts_file only when the flag is false and the
\* Speech Worker is not between observing the flag and clearing it.
C13_OnePlayback ==
    /\ mpc \in {"m_load_acq", "m_load"} => ~speech_loaded
    /\ mpc \in {"m_tts", "m_sox"} => (~speech_loaded /\ ~PlaybackInProgress)

\* main() is about to write tts_file again after a turn whose speech (the
\* file without volume gain) has been played
C13_Witness ==
    /\ mpc = "m_tts"
    /\ bound /\ answer # ""
    /\ tts_file = RawFile

\* helpers for the claims about build_api_messages
Built == bpc = "b_built"
RECURSIVE IsSubSeq(_, _)
\* a can be obtained from b by deleting elements
IsSubSeq(a, b) ==
    IF a = <<>> THEN TRUE
    ELSE IF b = <<>> THEN FALSE
    ELSE IF Head(a) = Head(b) THEN IsSubSeq(Tail(a), Tail(b))
    ELSE IsSubSeq(a, Tail(b))
Opt(role, field) == IF field.has THEN <<Message(role, field.v)>> ELSE <<>>
HasContent(m) == m.content # ""
\* the sources in the order the specification lists them
ListedSources ==
    Each("system", Get(selected_preset.system_prompts))
        \o Opt("system", selected_persona.system_prompt)
        \o Opt("system", selected_character.description)
        \o Each("system", Get(selected_preset.system_prefixes))
        \o Opt("assistant", selected_character.first_message)
        \o Each("assistant", Get(selected_preset.assistant_prompts))
\* the same with the character's system_prompt in the character's place
AllSources ==
    Each("system", Get(selected_preset.system_prompts))
        \o Opt("system", selected_persona.system_prompt)
        \o Opt("system", selected_character.description)
        \o Opt("system", selected_character.system_prompt)
        \o Each("system", Get(selected_preset.system_prefixes))
        \o Opt("assistant", selected_character.first_message)
        \o Each("assistant", Get(selected_preset.assistant_prompts))
\* the character's system message the specification asks for
CharacterSource ==
    IF selected_character.description.v # ""
    THEN Opt("system", selected_character.description)
    ELSE Opt("system", selected_character.system_prompt)
NonEmptySources ==
    SelectSeq(Each("system", Get(selected_preset.system_prompts))
                  \o Opt("system", selected_persona.system_prompt)
                  \o CharacterSource
                  \o Each("system", Get(selected_preset.system_prefixes))
                  \o Opt("assistant", selected_character.first_message)
                  \o Each("assistant", Get(selected_preset.assistant_prompts)),
              HasContent)
IsExample ==
    /\ selected_character =
           [none |-> FALSE, description |-> Present("C1"),
            system_prompt |-> Missing, first_message |-> Present("Hi")]
    /\ selected_persona = [none |-> FALSE, system_prompt |-> Present("S1")]
    /\ selected_preset =
           [none |-> FALSE, system_prompts |-> Present(<<"P1">>),
            system_prefixes |-> Present(<<"[new]">>),
            assistant_prompts |-> Present(<<"A1">>)]
ExampleMessages ==
    <<Message("system", "P1"), Message("system", "S1"),
      Message("system", "C1"), Message("system", "[new]"),
      Message("assistant", "Hi"), Message("assistant", "A1")>>

\* C14: build_api_messages emits its messages in the order preset
\* system_prompts, persona system_prompt, character system message, preset
\* system_prefixes, character first_message, preset assistant_prompts, each
\* list in array order: the result is the ordered sources with some left out,
\* every listed source that has content is in it in that order, and the
\* example input gives exactly [P1, S1, C1, [new], Hi, A1].
C14_BuildOrder ==
    Built =>
        /\ IsSubSeq(messages, AllSources)
        /\ IsSubSeq(SelectSeq(ListedSources, HasContent), messages)
        /\ IsExample => messages = ExampleMessages

\* the example input has been built
C14_Witness == Built /\ IsExample /\ Len(messages) = 6

\* C15: a source that is absent or empty contributes no message: the number
\* of messages is the number of non-empty source fields and list entries, and
\* no message has empty content.
C15_EmptyContributesNothing ==
    Built =>
        /\ Len(messages) = Len(NonEmptySources)
        /\ \A i \in 1..Len(messages) : HasContent(messages[i])

\* C16: a character with a system_prompt X gets the system message X exactly
\* when its description is absent or empty.
C16_SystemPromptFallback ==
    (Built /\ selected_character.system_prompt.v # "")
        => ((\E i \in 1..Len(messages) :
                messages[i] = Message("system", selected_character.system_prompt.v))
            <=> selected_character.description.v = "")

\* helpers for the claims about the handlers
IsPrefix(a, b) == Len(a) <= Len(b) /\ SubSeq(b, 1, Len(a)) = a
\* the reply is a well-formed {actions, answer} structure
WellFormed(text) ==
    text.k = "struct" /\ text.d.hasActions /\ text.d.hasAnswer /\ ~text.d.malformed
\* the messages the current turn added to the conversation
TurnMessages ==
    SubSeq(conversation_history, mark + 1, Len(conversation_history))
\* the turn's calls have returned and the last one was answered
Replied == calls # <<>> /\ LastCall.o = "reply"

\* C17: for a reply whose text is a well-formed {actions, answer} structure,
\* JSON literals in extra fields included, the handler returns a mapping with
\* the same actions in the same order and the same answer.
C17_StructuredRoundTrip ==
    (mpc = "m_parse" /\ Replied /\ WellFormed(assistant_msg))
        => /\ response.t = "dict"
           /\ response.hasActions /\ response.actions = assistant_msg.d.actions
           /\ response.hasAnswer /\ response.answer = assistant_msg.d.answer

\* C18: for a reply that is not a structure (prose, also prose that is a
\* valid expression), the turn's actions are ['stop'] and its answer is the
\* reply text unchanged.
C18_ProseBecomesAnswer ==
    (mpc = "m_listen" /\ Replied /\ assistant_msg.k # "struct")
        => /\ fresh
           /\ actions = DefaultActions
           /\ answer = assistant_msg.raw

\* C19: the conversation of the anthropic, openrouter and custom handlers
\* only grows by append: over every call, successful or failing, the history
\* before the call is a prefix of the history after it.
C19_HistoryAppendOnly ==
    [][provider # "openai"
         => IsPrefix(conversation_history, conversation_history')]_vars

\* after an answered turn, an image request of the custom handler has failed
\* and left its user message as the last one of the conversation
C19_Witness ==
    /\ provider = "custom"
    /\ mpc = "m_listen"
    /\ mark >= 2
    /\ Len(TurnMessages) = 1
    /\ TurnMessages[1].image
    /\ conversation_history[mark].role = "assistant"

\* C20: when the image request of a turn fell back to the text-only
\* dialogue, the turn has added to the conversation exactly the text-only user
\* message, followed by the assistant's reply if the text request was
\* answered, and no image-carrying message.
C20_FallbackLeavesNoImage ==
    (mpc = "m_parse" /\ Len(calls) = 2)
        => TurnMessages =
               <<TextMessage("user", result)>>
                   \o (IF LastCall.o = "reply"
                       THEN <<TextMessage("assistant", assistant_msg.raw)>>
                       ELSE <<>>)

\* text-to-speech was attempted in this turn and _status ended false
TtsFalse ==
    /\ mpc \in {"m_load_acq", "m_load", "m_pub_acq", "m_pub",
                "m_ws_acq", "m_ws", "m_wa_acq", "m_wa"}
    /\ ttsCalls # <<>>
    /\ ~status

\* C21: in a turn whose text-to-speech ended false, speech_loaded is not set
\* and main() neither loads the speech nor waits for playback; it publishes
\* the turn's actions and ends the turn only from the wait for the actions,
\* once action_status is no longer 'actions'.
C21_TtsFalseDisablesSpeech ==
    [][TtsFalse =>
         /\ ~speech_loaded /\ ~speech_loaded'
         /\ mpc \in {"m_pub_acq", "m_pub", "m_wa_acq", "m_wa"}
         /\ mpc = "m_pub" /\ mpc' # mpc
              => (action_status' = Actions /\ actions_to_be_done' = actions)
         /\ mpc' = "m_listen"
              => (mpc = "m_wa" /\ action_status = ActionsDone
                    /\ actions_to_be_done = actions)]_vars

\* text-to-speech failed, the actions were published and have been run, and
\* main() is about to leave the wait for them
C21_Witness ==
    /\ TtsFalse
    /\ mpc = "m_wa"
    /\ action_status = ActionsDone
    /\ actions_to_be_done = actions
    /\ actions # <<>>

\* C22: while main() is at input capture action_status is 'standby' and no
\* thread changes action_status, speech_loaded or actions_to_be_done; when
\* the capture yields false or the empty string the loop goes back to the
\* top without a request having been issued, and no request is ever issued
\* with the empty text.
C22_SkipIsSilent ==
    /\ [](InRequest => result # "")
    /\ [][mpc = "m_capture" =>
            /\ action_status = Standby
            /\ calls = <<>>
            /\ UNCHANGED <<action_status, speech_loaded, actions_to_be_done, calls>>
            /\ (mpc' # mpc /\ result' = "") => mpc' = "m_listen"]_vars

\* a turn has been skipped after an earlier turn had published its batch
C22_Witness ==
    /\ mpc = "m_listen"
    /\ result = ""
    /\ action_status = Standby
    /\ actions_to_be_done # <<>>
    /\ calls = <<>>

\* the worker is where it runs an action or filler / where audio plays
ActionRunning == apc \in {"a_disp", "a_run"}
\* an action_flow.run call is made in this step
RunStep == Len(ran') > Len(ran)

\* C23: the Action Worker does not hold action_lock where it runs actions,
\* the Speech Worker does not hold speech_lock while audio plays, each worker
\* only ever takes its own lock, and main() never holds both locks.
C23_NoLockWhileActing ==
    /\ ActionRunning => action_lock # "action"
    /\ PlaybackInProgress /\ spc # "s_clr" => speech_lock # "speak"
    /\ action_lock \in {"free", "main", "action"}
    /\ speech_lock \in {"free", "main", "speak"}
    /\ ~(action_lock = "main" /\ speech_lock = "main")

\* main() holds speech_lock for a poll while the audio plays and the worker
\* is in the middle of the batch
C23_Witness ==
    /\ mpc = "m_ws"
    /\ speech_lock = "main"
    /\ spc = "s_play"
    /\ apc = "a_run"
    /\ a_idx = 2

\* C24: what the Action Worker runs depends only on the phase it observed in
\* this iteration: after 'actions' the next action of the published queue,
\* after 'think' only the 'think' filler, after 'standby' at most one idle
\* filler, after 'actions_done' nothing.
C24_RunsFollowObservedPhase ==
    [][RunStep =>
         LET r == ran'[Len(ran')] IN
         /\ ran' = Append(ran, r)
         /\ a_state = Actions
              => (action_status = Actions
                    /\ Len(ran') <= Len(actions_to_be_done)
                    /\ r.a = actions_to_be_done[Len(ran')])
         /\ a_state = Think => (r.a = "think" /\ ran = <<>>)
         /\ a_state = Standby => (r.a \in standby_actions /\ ran = <<>>)
         /\ a_state # ActionsDone]_vars

\* the worker has run an idle filler on an observed 'standby' while main()
\* has already published the batch
C24_Witness ==
    /\ a_state = Standby
    /\ Len(ran) = 1
    /\ ran[1].a \in standby_actions
    /\ action_status = Actions
    /\ apc = "a_acq"

\* C25: a published batch is executed exactly once: the worker reads the
\* queue only while 'actions' is set and before it has run anything in the
\* iteration, has run exactly the batch in list order when it sets
\* 'actions_done', and runs nothing while 'actions_done' stands.
C25_BatchExactlyOnce ==
    [][/\ (apc = "a_queue" /\ apc' # apc)
            => (action_status = Actions /\ ran = <<>>
                  /\ a_actions' = actions_to_be_done)
       /\ (action_status' = ActionsDone /\ action_status # ActionsDone)
            => (Len(ran) = Len(actions_to_be_done)
                  /\ \A i \in 1..Len(ran) : ran[i].a = actions_to_be_done[i])
       /\ action_status = ActionsDone => ~RunStep]_vars

\* the worker has observed 'actions_done' after a batch of three and runs
\* nothing
C25_Witness ==
    /\ action_status = ActionsDone
    /\ a_state = ActionsDone
    /\ apc = "a_disp"
    /\ ran = <<>>
    /\ Len(actions_to_be_done) = 3

\* no call has failed in a way that ended a thread: the provider calls, the
\* fillers and the playback have returned
NoFailure == mpc # "m_crashed" /\ apc # "a_dead" /\ spc # "s_dead"
TurnDone == mpc = "m_listen" /\ action_status = ActionsDone /\ ~speech_loaded

\* C26: when the threads are scheduled fairly and every provider call, action
\* run and playback returns, a turn that has set 'think' completes: main()
\* reaches the end of the turn with the batch at 'actions_done' and
\* speech_loaded false, and goes on to set 'standby' and capture again.
C26_TurnCompletes ==
    []NoFailure =>
        /\ (mpc = "m_request") ~> TurnDone
        /\ (mpc = "m_listen") ~> (mpc = "m_capture")

\* C27: in the conversation of the anthropic, openrouter and custom handlers
\* user and assistant messages alternate: no user message directly follows
\* another user message, and between two turns the last message is not a
\* user message left without its reply.
C27_HistoryAlternates ==
    provider # "openai" =>
        /\ \A i \in 1..(Len(conversation_history) - 1) :
              ~(conversation_history[i].role = "user"
                  /\ conversation_history[i + 1].role = "user")
        /\ (mpc = "m_listen" /\ conversation_history # <<>>)
              => conversation_history[Len(conversation_history)].role # "user"

\* C28: for a structured response with a non-empty answer the turn's batch
\* is the response's action list without any action of VOICE_ACTIONS, the
\* others in their order; with an empty answer the batch is the list
\* unchanged.
C28_VoiceActionsFiltered ==
    (mpc = "m_listen" /\ bound) =>
        /\ answer = response.answer
        /\ actions = IF response.answer # ""
                     THEN SelectSeq(response.actions, IsNotVoice)
                     ELSE response.actions

\* a spoken response whose list repeats a voice action around another action
C28_Witness ==
    /\ mpc = "m_listen"
    /\ bound
    /\ response.answer = "ok"
    /\ response.actions = <<"bark", "sit", "bark">>
    /\ actions = <<"sit">>

\* the handler exists and the loop is about to start
Started == cpc = "c_loop"

\* C29: when --config names a file whose provider is X and --provider is
\* not on the command line (and neither the auto-launch configuration nor
\* the interactive set-up supplies API settings), the handler is created
\* for provider X.
C29_ConfigFileProviderUsed ==
    ( /\ Started
      /\ argv.config
      /\ files.config_file.provider.has
      /\ ~argv.provider.has
      /\ auto_launch_config.none
      /\ ~use_interactive )
        => provider = files.config_file.provider.v

\* C30: with auto-launch enabled, with_img = false in
\* auto_launch_config.json and no --no-img, the loop runs with image
\* capture disabled: the test that chooses dialogue_with_img is false.
C30_AutoLaunchImageChoiceHonoured ==
    ( /\ Started
      /\ ~auto_launch_config.none
      /\ auto_launch_config.with_img = Flag(FALSE)
      /\ ~argv.no_img )
        => ~(with_img /\ vilib_available = "true")

====
